---- MODULE Spec2Model ----
(***************************************************************************)
(* A model of k3d's port-publishing and node-addressing code               *)
(* (src/cli/commands.go, src/cli/cluster.go, src/cli/container.go and the  *)
(* helper files under src/unnamed).                                        *)
(*                                                                         *)
(* Go strings are modelled as sequences of one-character strings, so that  *)
(* strings.Split, fmt.Sprintf and the character tests of ValidateHostname  *)
(* are computed as the code computes them.                                 *)
(***************************************************************************)
EXTENDS Integers, Sequences, FiniteSets, TLC

VARIABLES
    pc,                 \* position of the modelled call
    specs,              \* []string: the publish specs handed to mapNodesToPortSpecs
    createdNodes,       \* []string: the node names handed to mapNodesToPortSpecs
    nodeToPortSpecMap,  \* map[string][]string (a function; a missing key reads as the empty list)
    err,                \* whether the last call returned a non-nil error
    warnings,           \* the (node, spec) pairs logged as "Unknown node-specifier"
    extracted,          \* the results of the extractNodes calls of mapNodesToPortSpecs' loop
    role,               \* MergePortSpecs argument
    name,               \* MergePortSpecs argument (the container name)
    portSpecs,          \* MergePortSpecs result
    clusterName,        \* c.String("name")
    workers,            \* c.Int("workers")
    portAutoOffset,     \* c.Int("port-auto-offset")
    nextWorker,         \* the index i of CreateCluster's worker loop
    containers,         \* container name -> what createServer / createWorker gave it
    arrays,             \* the backing arrays of the []nat.PortBinding slices
    publishedPorts,     \* the PublishedPorts objects created so far
    trace,              \* the calls that created them: arguments and result as returned
    env,                \* ClusterSpec.Env: the environment handed to the containers
    network,            \* whether the cluster network exists
    clusterDir,         \* whether the cluster directory exists
    waitSet,            \* c.IsSet("wait")
    wait,               \* c.Int("wait"), in seconds
    now,                \* the seconds passed since CreateCluster took its start time
    serverLog,          \* whether the server's log holds "Running kubelet"
    faulty,             \* whether the docker daemon of this run may fail a call
    returned,           \* what the last command returned: "" while it runs, "nil", or the error
    events,             \* the removal calls DeleteCluster made, in order, with their outcome
    steps               \* worker index -> progress of its merge, build and offset steps

\* the arguments and results of mapNodesToPortSpecs
resolveVars == <<specs, createdNodes, nodeToPortSpecMap, err, warnings, extracted>>

\* the arguments and the result of MergePortSpecs
mergeVars == <<role, name, portSpecs>>

\* the flags and the progress of CreateCluster
clusterVars == <<clusterName, workers, portAutoOffset, nextWorker, containers>>

\* the PublishedPorts objects, their memory and the calls made on them
portVars == <<arrays, publishedPorts, trace>>

\* the resources of a cluster, the --wait flag, the clock, and what a command returned
lifeVars == <<env, network, clusterDir, waitSet, wait, now, serverLog, faulty, returned,
              events>>

vars == <<pc, resolveVars, mergeVars, clusterVars, portVars, lifeVars, steps>>

\* no cluster command has run: no network, no directory, no --wait, a reliable daemon
NoLifecycle ==
    /\ env = <<>>
    /\ network = FALSE
    /\ clusterDir = FALSE
    /\ waitSet = FALSE
    /\ wait = 0
    /\ now = 0
    /\ serverLog = FALSE
    /\ faulty = FALSE
    /\ returned = ""
    /\ events = <<>>

-----------------------------------------------------------------------------
(* Strings                                                                 *)

Digits == <<"0", "1", "2", "3", "4", "5", "6", "7", "8", "9">>

DigitChars == {Digits[i] : i \in 1..Len(Digits)}

LowerSeq == <<"a", "b", "c", "d", "e", "f", "g", "h", "i", "j", "k", "l", "m",
             "n", "o", "p", "q", "r", "s", "t", "u", "v", "w", "x", "y", "z">>

UpperSeq == <<"A", "B", "C", "D", "E", "F", "G", "H", "I", "J", "K", "L", "M",
             "N", "O", "P", "Q", "R", "S", "T", "U", "V", "W", "X", "Y", "Z">>

LowerChars == {LowerSeq[i] : i \in 1..Len(LowerSeq)}

UpperChars == {UpperSeq[i] : i \in 1..Len(UpperSeq)}

\* strings.ToLower
ToLower(s) ==
    [i \in 1..Len(s) |->
        IF s[i] \in UpperChars
        THEN LowerSeq[CHOOSE k \in 1..Len(UpperSeq) : UpperSeq[k] = s[i]]
        ELSE s[i]]

\* the value of a decimal digit character
DigitValue(c) == CHOOSE d \in 0..9 : Digits[d + 1] = c

\* fmt.Sprintf("%d", n)
RECURSIVE Itoa(_)
Itoa(n) ==
    IF n < 0 THEN <<"-">> \o Itoa(0 - n)
    ELSE IF n < 10 THEN <<Digits[n + 1]>>
    ELSE Itoa(n \div 10) \o <<Digits[(n % 10) + 1]>>

\* strings.Split(s, sep) for a one-character separator: always at least one element
RECURSIVE SplitFrom(_, _, _, _)
SplitFrom(s, sep, i, cur) ==
    IF i > Len(s) THEN <<cur>>
    ELSE IF s[i] = sep THEN <<cur>> \o SplitFrom(s, sep, i + 1, <<>>)
    ELSE SplitFrom(s, sep, i + 1, Append(cur, s[i]))

Split(s, sep) == SplitFrom(s, sep, 1, <<>>)

\* the elements of a list, as a set
Elems(l) == {l[i] : i \in 1..Len(l)}

\* Go map lookup m[k]: the zero value (a nil slice) when the key is missing
Lookup(m, k) == IF k \in DOMAIN m THEN m[k] ELSE <<>>

\* the empty Go map (make(map...)); a nil map reads the same way
EmptyMap == [k \in {} |-> <<>>]

\* m[k] = v
MapSet(m, k, v) == [x \in (DOMAIN m) \cup {k} |-> IF x = k THEN v ELSE m[x]]

sAll == <<"a", "l", "l">>
sWorkers == <<"w", "o", "r", "k", "e", "r", "s">>
sServer == <<"s", "e", "r", "v", "e", "r">>
sMaster == <<"m", "a", "s", "t", "e", "r">>
sWorker == <<"w", "o", "r", "k", "e", "r">>

-----------------------------------------------------------------------------
(* cluster.go: container names                                             *)

defaultContainerNamePrefix == <<"k", "3", "d">>

\* GetContainerName(role, clusterName, postfix)
GetContainerName(r, cluster, postfix) ==
    IF postfix >= 0
    THEN defaultContainerNamePrefix \o <<"-">> \o cluster \o <<"-">> \o r \o <<"-">> \o Itoa(postfix)
    ELSE defaultContainerNamePrefix \o <<"-">> \o cluster \o <<"-">> \o r

\* GetAllContainerNames(clusterName, serverCount, workerCount)
GetAllContainerNames(cluster, serverCount, workerCount) ==
    [i \in 1..serverCount |-> GetContainerName(sServer, cluster, i - 1)]
    \o [i \in 1..workerCount |-> GetContainerName(sWorker, cluster, i - 1)]

\* the name createServer gives the server container (postfix -1)
ServerContainerName(cluster) == GetContainerName(sServer, cluster, 0 - 1)

\* the name createWorker gives worker number postfix
WorkerContainerName(cluster, postfix) == GetContainerName(sWorker, cluster, postfix)

-----------------------------------------------------------------------------
(* port.go: MergePortSpecs                                                 *)

\* nodeRuleGroupsMap: role -> the groups applied to it, in declared order
nodeRuleGroupsMap(r) ==
    IF r = sWorker THEN <<sAll, sWorkers>>
    ELSE IF r = sServer THEN <<sAll, sServer, sMaster>>
    ELSE <<>>

\* the inner loops of MergePortSpecs: append each v of list that is not yet in acc
RECURSIVE AppendMissing(_, _)
AppendMissing(acc, list) ==
    IF list = <<>> THEN acc
    ELSE AppendMissing(
            IF \E i \in 1..Len(acc) : acc[i] = Head(list) THEN acc ELSE Append(acc, Head(list)),
            Tail(list))

\* the loop over the role's groups
RECURSIVE MergeGroups(_, _, _)
MergeGroups(acc, m, groups) ==
    IF groups = <<>> THEN acc
    ELSE MergeGroups(AppendMissing(acc, Lookup(m, Head(groups))), m, Tail(groups))

\* mutants of MergePortSpecs
MergePortSpecs_NoDedup(m, r, n) ==
    LET RECURSIVE Cat(_)
        Cat(groups) == IF groups = <<>> THEN <<>>
                       ELSE Lookup(m, Head(groups)) \o Cat(Tail(groups))
    IN  Cat(nodeRuleGroupsMap(r)) \o Lookup(m, n)

MergePortSpecs_NameFirst(m, r, n) ==
    MergeGroups(AppendMissing(<<>>, Lookup(m, n)), m, nodeRuleGroupsMap(r))

MergePortSpecs_FirstOfGroup(m, r, n) ==
    LET first(l) == IF l = <<>> THEN <<>> ELSE <<Head(l)>>
        RECURSIVE Go(_, _)
        Go(acc, groups) == IF groups = <<>> THEN acc
                           ELSE Go(AppendMissing(acc, first(Lookup(m, Head(groups)))), Tail(groups))
    IN  AppendMissing(Go(<<>>, nodeRuleGroupsMap(r)), Lookup(m, n))

MergePortSpecs_AllGroups(m, r, n) ==
    AppendMissing(MergeGroups(<<>>, m, <<sAll, sWorkers, sServer, sMaster>>), Lookup(m, n))

\* MergePortSpecs(nodeToPortSpecMap, role, name); its error result is always nil
MergePortSpecs(m, r, n) ==
    AppendMissing(MergeGroups(<<>>, m, nodeRuleGroupsMap(r)), Lookup(m, n))

-----------------------------------------------------------------------------
(* util.go: ValidateHostname                                               *)

\* mutant of ValidateHostname: a trailing dash is not looked at
ValidateHostname_NoEndDash(n) ==
    IF Len(n) = 0 THEN FALSE
    ELSE IF n[1] = "-" THEN FALSE
    ELSE \A i \in 1..Len(n) :
            \/ n[i] \in DigitChars
            \/ n[i] \in LowerChars
            \/ n[i] \in UpperChars
            \/ n[i] = "-"

\* TRUE when ValidateHostname(name) returns nil
ValidateHostname(n) ==
    IF Len(n) = 0 THEN FALSE
    ELSE IF n[1] = "-" \/ n[Len(n)] = "-" THEN FALSE
    ELSE \A i \in 1..Len(n) :
            \/ n[i] \in DigitChars
            \/ n[i] \in LowerChars
            \/ n[i] \in UpperChars
            \/ n[i] = "-"

-----------------------------------------------------------------------------
(* github.com/docker/go-connections/nat, as called by port.go              *)

\* strconv.ParseUint(s, 10, 16): [ok, val]
RECURSIVE DecimalValue(_, _)
DecimalValue(s, acc) ==
    IF s = <<>> THEN acc ELSE DecimalValue(Tail(s), acc * 10 + DigitValue(Head(s)))

\* the range check of ParseUint(s, 10, 16) on the value v of the digits
Uint16Of(v) ==
    IF v > 65535 THEN [ok |-> FALSE, val |-> 65535] ELSE [ok |-> TRUE, val |-> v]

ParseUint16(s) ==
    IF s = <<>> \/ \E i \in 1..Len(s) : s[i] \notin DigitChars
    THEN [ok |-> FALSE, val |-> 0]
    ELSE Uint16Of(DecimalValue(s, 0))

\* nat.ParsePortRange for a single port, parsed as p
SinglePort(p) == [ok |-> p.ok, start |-> p.val, end |-> p.val]

\* nat.ParsePortRange for "start-end", the two ends parsed as s and e
PortRangeOf(s, e) ==
    IF ~s.ok \/ ~e.ok \/ e.val < s.val
    THEN [ok |-> FALSE, start |-> 0, end |-> 0]
    ELSE [ok |-> TRUE, start |-> s.val, end |-> e.val]

\* nat.ParsePortRange on the parts of strings.Split(ports, "-")
PortRangeOfParts(parts) == PortRangeOf(ParseUint16(parts[1]), ParseUint16(parts[2]))

\* nat.ParsePortRange(ports): [ok, start, end]
ParsePortRange(ports) ==
    IF ports = <<>> THEN [ok |-> FALSE, start |-> 0, end |-> 0]
    ELSE IF "-" \notin Elems(ports) THEN SinglePort(ParseUint16(ports))
    ELSE PortRangeOfParts(Split(ports, "-"))

\* strings.Join(parts, sep)
RECURSIVE Join(_, _)
Join(parts, sep) ==
    IF parts = <<>> THEN <<>>
    ELSE IF Len(parts) = 1 THEN parts[1]
    ELSE parts[1] \o <<sep>> \o Join(Tail(parts), sep)

\* the switch of nat.splitParts on the n parts of strings.Split(rawport, ":")
PartsOf(parts, n) ==
    IF n = 1 THEN [ip |-> <<>>, hostPort |-> <<>>, containerPort |-> parts[n]]
    ELSE IF n = 2 THEN [ip |-> <<>>, hostPort |-> parts[1], containerPort |-> parts[n]]
    ELSE IF n = 3 THEN [ip |-> parts[1], hostPort |-> parts[2], containerPort |-> parts[n]]
    ELSE [ip |-> Join(SubSeq(parts, 1, n - 2), ":"), hostPort |-> parts[n - 1],
          containerPort |-> parts[n]]

SplitPartsOf(parts) == PartsOf(parts, Len(parts))

\* nat.splitParts(rawport): [ip, hostPort, containerPort]
splitParts(rawport) == SplitPartsOf(Split(rawport, ":"))

sTcp == <<"t", "c", "p">>
sUdp == <<"u", "d", "p">>
sSctp == <<"s", "c", "t", "p">>

\* nat.SplitProtoPort on the parts of strings.SplitN(rawPort, "/", 2), which are those
\* of Split for a port with at most one "/" (the model's inputs hold no other)
ProtoPortOf(rawPort, parts) ==
    IF Len(rawPort) = 0 \/ Len(parts[1]) = 0 THEN [proto |-> <<>>, port |-> <<>>]
    ELSE IF Len(parts) = 1 THEN [proto |-> sTcp, port |-> rawPort]
    ELSE IF Len(parts[2]) = 0 THEN [proto |-> sTcp, port |-> parts[1]]
    ELSE [proto |-> parts[2], port |-> parts[1]]

\* nat.SplitProtoPort(rawPort): [proto, port]
SplitProtoPort(rawPort) == ProtoPortOf(rawPort, Split(rawPort, "/"))

\* net.ParseIP on the parts of a dotted-decimal IPv4 address
IPv4PartsOk(parts) ==
    /\ Len(parts) = 4
    /\ \A i \in 1..4 :
          /\ Len(parts[i]) \in 1..3
          /\ \A j \in 1..Len(parts[i]) : parts[i][j] \in DigitChars
          /\ (Len(parts[i]) > 1 => parts[i][1] # "0")
          /\ DecimalValue(parts[i], 0) <= 255

\* net.ParseIP for the dotted-decimal IPv4 form (the model's inputs hold no IPv6 literal)
ParseIPOk(ip) == IPv4PartsOk(Split(ip, "."))

\* nat.ParsePortSpec(rawPort): [ok, mappings], a mapping being
\* [Port |-> "containerPort/proto", Binding |-> [HostIP, HostPort]]
\* the host port of mapping number i + 1: a range only for a single container port
HostPortOf(hp0, cr, hr) ==
    IF cr.start = cr.end /\ hr.start # hr.end
    THEN hp0 \o <<"-">> \o Itoa(hr.end) ELSE hp0

\* the checks and the loop of nat.ParsePortSpec: sp the parts of the spec, pp the
\* container port and its protocol, cr and hr the container and host port ranges
PortMappingsOf(sp, pp, proto, cr, hr) ==
    IF sp.ip # <<>> /\ ~ParseIPOk(sp.ip) THEN [ok |-> FALSE, mappings |-> <<>>]
    ELSE IF pp.port = <<>> THEN [ok |-> FALSE, mappings |-> <<>>]
    ELSE IF ~cr.ok THEN [ok |-> FALSE, mappings |-> <<>>]
    ELSE IF ~hr.ok THEN [ok |-> FALSE, mappings |-> <<>>]
    ELSE IF /\ sp.hostPort # <<>>
            /\ (cr.end - cr.start) # (hr.end - hr.start)
            /\ cr.end # cr.start THEN [ok |-> FALSE, mappings |-> <<>>]
    ELSE IF proto \notin {sTcp, sUdp, sSctp} THEN [ok |-> FALSE, mappings |-> <<>>]
    ELSE [ok |-> TRUE,
          mappings |->
            [k \in 1..(cr.end - cr.start + 1) |->
                [Port |-> Itoa(cr.start + (k - 1)) \o <<"/">> \o proto,
                 Binding |->
                    [HostIP |-> sp.ip,
                     HostPort |->
                        HostPortOf(IF Len(sp.hostPort) > 0 THEN Itoa(hr.start + (k - 1))
                                   ELSE sp.hostPort, cr, hr)]]]]

\* nat.ParsePortSpec after splitParts and SplitProtoPort
ParseProtoPort(sp, pp) ==
    PortMappingsOf(sp, pp, ToLower(pp.proto),
                   IF pp.port = <<>> THEN [ok |-> FALSE, start |-> 0, end |-> 0]
                   ELSE ParsePortRange(pp.port),
                   IF Len(sp.hostPort) > 0 THEN ParsePortRange(sp.hostPort)
                   ELSE [ok |-> TRUE, start |-> 0, end |-> 0])

\* nat.ParsePortSpec after splitParts
ParseParts(sp) == ParseProtoPort(sp, SplitProtoPort(sp.containerPort))

ParsePortSpec(rawPort) == ParseParts(splitParts(rawPort))

-----------------------------------------------------------------------------
(* port.go: validatePortSpecs, extractNodes, mapNodesToPortSpecs           *)

\* defaultNodes: the node group a port is exposed on by default
defaultNodes == sServer

\* one iteration of validatePortSpecs' loop: TRUE when the spec passes
ValidSpec(spec) ==
    LET atSplit == Split(spec, "@")
    IN  /\ ParsePortSpec(atSplit[1]).ok
        /\ \A i \in 2..Len(atSplit) : ValidateHostname(atSplit[i])

\* mutant of validatePortSpecs: only the first spec is validated
validatePortSpecs_FirstOnly(ss) == ss = <<>> \/ ValidSpec(ss[1])

\* mutant of validatePortSpecs: the node specifiers are not validated
validatePortSpecs_NoHostname(ss) ==
    \A i \in 1..Len(ss) : ParsePortSpec(Split(ss[i], "@")[1]).ok

\* validatePortSpecs(specs): TRUE when it returns nil
RECURSIVE validatePortSpecs(_)
validatePortSpecs(ss) ==
    IF ss = <<>> THEN TRUE
    ELSE IF ~ValidSpec(Head(ss)) THEN FALSE
    ELSE validatePortSpecs(Tail(ss))

\* mutants of extractNodes
extractNodes_NoDefault(spec) ==
    LET atSplit == Split(spec, "@")
    IN  [nodes |-> Tail(atSplit), portSpec |-> atSplit[1]]

extractNodes_LastAt(spec) ==
    LET atSplit == Split(spec, "@")
    IN  [nodes |-> IF Len(atSplit) > 1 THEN <<atSplit[Len(atSplit)]>> ELSE <<defaultNodes>>,
         portSpec |-> Join(SubSeq(atSplit, 1, IF Len(atSplit) > 1 THEN Len(atSplit) - 1 ELSE 1), "@")]

\* extractNodes(spec): [nodes, portSpec]
extractNodes(spec) ==
    LET atSplit == Split(spec, "@")
        nodes == IF Len(atSplit) > 1 THEN Tail(atSplit) ELSE <<>>
    IN  [nodes |-> IF Len(nodes) = 0 THEN <<defaultNodes>> ELSE nodes,
         portSpec |-> atSplit[1]]

\* possibleNodeSpecifiers of mapNodesToPortSpecs
possibleNodeSpecifiers(created) == <<sAll, sWorkers, sServer, sMaster>> \o created

\* the loop over the nodes of one spec: acc is [map, warnings]
RECURSIVE MapNodesOfSpec(_, _, _, _, _)
MapNodesOfSpec(acc, nodes, portSpec, spec, possible) ==
    IF nodes = <<>> THEN acc
    ELSE LET node == Head(nodes)
             nodeFound == \E i \in 1..Len(possible) : possible[i] = node
         IN  MapNodesOfSpec(
                IF nodeFound
                THEN [acc EXCEPT !.map = MapSet(acc.map, node, Append(Lookup(acc.map, node), portSpec))]
                ELSE [acc EXCEPT !.warnings = Append(acc.warnings, <<node, spec>>)],
                Tail(nodes), portSpec, spec, possible)

\* the loop over the specs
RECURSIVE MapSpecs(_, _, _)
MapSpecs(acc, ss, possible) ==
    IF ss = <<>> THEN acc
    ELSE LET ex == extractNodes(Head(ss))
             nodes == IF Len(ex.nodes) = 0 THEN <<defaultNodes>> ELSE ex.nodes
         IN  MapSpecs(MapNodesOfSpec(acc, nodes, ex.portSpec, Head(ss), possible),
                      Tail(ss), possible)

\* mutant of mapNodesToPortSpecs: every node specifier is registered unchecked
mapNodesToPortSpecs_Unchecked(ss, created) ==
    IF ~validatePortSpecs(ss)
    THEN [map |-> EmptyMap, err |-> TRUE, warnings |-> <<>>]
    ELSE LET RECURSIVE AllNodes(_)
             AllNodes(l) == IF l = <<>> THEN <<>>
                            ELSE extractNodes(Head(l)).nodes \o AllNodes(Tail(l))
             r == MapSpecs([map |-> EmptyMap, warnings |-> <<>>], ss,
                           possibleNodeSpecifiers(created) \o AllNodes(ss))
         IN  [map |-> r.map, err |-> FALSE, warnings |-> r.warnings]

\* mutant of mapNodesToPortSpecs: a binding already in a node's list is not appended again
mapNodesToPortSpecs_Dedup(ss, created) ==
    IF ~validatePortSpecs(ss)
    THEN [map |-> EmptyMap, err |-> TRUE, warnings |-> <<>>]
    ELSE LET r == MapSpecs([map |-> EmptyMap, warnings |-> <<>>], ss,
                           possibleNodeSpecifiers(created))
         IN  [map |-> [k \in DOMAIN r.map |-> AppendMissing(<<>>, r.map[k])],
              err |-> FALSE, warnings |-> r.warnings]

\* mutant of mapNodesToPortSpecs: a spec is validated only when its turn in the loop comes
mapNodesToPortSpecs_LateValidation(ss, created) ==
    LET bad == {i \in 1..Len(ss) : ~ValidSpec(ss[i])}
        firstBad == IF bad = {} THEN Len(ss) + 1 ELSE CHOOSE i \in bad : \A j \in bad : i <= j
        r == MapSpecs([map |-> EmptyMap, warnings |-> <<>>], SubSeq(ss, 1, firstBad - 1),
                      possibleNodeSpecifiers(created))
    IN  [map |-> r.map, err |-> bad # {}, warnings |-> r.warnings]

\* mapNodesToPortSpecs(specs, createdNodes): [map, err, warnings]; map is nil on error
mapNodesToPortSpecs(ss, created) ==
    IF ~validatePortSpecs(ss)
    THEN [map |-> EmptyMap, err |-> TRUE, warnings |-> <<>>]
    ELSE LET r == MapSpecs([map |-> EmptyMap, warnings |-> <<>>], ss,
                           possibleNodeSpecifiers(created))
         IN  [map |-> r.map, err |-> FALSE, warnings |-> r.warnings]

-----------------------------------------------------------------------------
(* port.go: PublishedPorts                                                 *)

\* PublishedPorts{ExposedPorts: {}, PortBindings: {}}
EmptyPublishedPorts == [ExposedPorts |-> {}, PortBindings |-> EmptyMap]

\* the loop of nat.ParsePortSpecs over the mappings of one spec
RECURSIVE AddMappings(_, _)
AddMappings(p, mappings) ==
    IF mappings = <<>> THEN p
    ELSE AddMappings(
            [ExposedPorts |-> p.ExposedPorts \cup {Head(mappings).Port},
             PortBindings |-> MapSet(p.PortBindings, Head(mappings).Port,
                                Append(Lookup(p.PortBindings, Head(mappings).Port),
                                       Head(mappings).Binding))],
            Tail(mappings))

\* nat.ParsePortSpecs(ports): [ok, ports]; the maps are nil on error
RECURSIVE ParsePortSpecs(_, _)
ParsePortSpecs(p, rawPorts) ==
    IF rawPorts = <<>> THEN [ok |-> TRUE, ports |-> p]
    ELSE LET parsed == ParsePortSpec(Head(rawPorts))
         IN  IF ~parsed.ok THEN [ok |-> FALSE, ports |-> EmptyPublishedPorts]
             ELSE ParsePortSpecs(AddMappings(p, parsed.mappings), Tail(rawPorts))

\* CreatePublishedPorts(specs): [ok, ports]
CreatePublishedPorts(ss) ==
    IF Len(ss) = 0 THEN [ok |-> TRUE, ports |-> EmptyPublishedPorts]
    ELSE ParsePortSpecs(EmptyPublishedPorts, ss)

\* nat.ParsePort(rawPort); Offset ignores its error and uses the 0 it returns with it
ParsePort(rawPort) ==
    IF Len(rawPort) = 0 THEN 0
    ELSE LET p == ParseUint16(rawPort) IN IF p.ok THEN p.val ELSE 0

\* PublishedPorts.Offset(offset)
Offset(p, offset) ==
    [ExposedPorts |-> p.ExposedPorts,
     PortBindings |->
        [k \in DOMAIN p.PortBindings |->
            [i \in 1..Len(p.PortBindings[k]) |->
                [HostIP |-> p.PortBindings[k][i].HostIP,
                 HostPort |-> Itoa(ParsePort(p.PortBindings[k][i].HostPort) * offset)]]]]

-----------------------------------------------------------------------------
(* port.go: the slices behind PublishedPorts.PortBindings, and AddPort      *)
(*                                                                         *)
(* A []nat.PortBinding is a slice header [arr, len] on a backing array of  *)
(* arrays; its capacity is the length of that array.  Copying a slice      *)
(* (newPortBindings[k] = v) copies the header and shares the array.        *)

\* the zero value of nat.PortBinding, filling the unused capacity of an array
ZeroBinding == [HostIP |-> <<>>, HostPort |-> <<>>]

\* a nil slice and []nat.PortBinding{}: no array, length and capacity 0
NilSlice == [arr |-> 0, len |-> 0]

\* the elements a slice shows
SliceView(arrs, sl) == IF sl.arr = 0 THEN <<>> ELSE SubSeq(arrs[sl.arr], 1, sl.len)

\* cap(sl)
SliceCap(arrs, sl) == IF sl.arr = 0 THEN 0 ELSE Len(arrs[sl.arr])

\* the capacity append gives the new array of a full slice (runtime.growslice, for the
\* small slices of port bindings: the needed length when it exceeds twice the old
\* capacity, twice the old capacity otherwise)
GrowCap(oldCap, need) == IF need > 2 * oldCap THEN need ELSE 2 * oldCap

\* list l in an array of capacity cap
Padded(l, cap) == l \o [i \in 1..(cap - Len(l)) |-> ZeroBinding]

\* append(sl, x): written into the spare capacity of sl's own array when there is
\* some, into a new array otherwise
AppendBinding(arrs, sl, x) ==
    IF sl.len < SliceCap(arrs, sl)
    THEN [arrays |-> [arrs EXCEPT ![sl.arr][sl.len + 1] = x],
          slice |-> [arr |-> sl.arr, len |-> sl.len + 1]]
    ELSE [arrays |-> Append(arrs, Padded(Append(SliceView(arrs, sl), x),
                                          GrowCap(SliceCap(arrs, sl), sl.len + 1))),
          slice |-> [arr |-> Len(arrs) + 1, len |-> sl.len + 1]]

\* the capacity of a slice built by n appends to an empty one, as nat.ParsePortSpecs
\* builds its binding lists
RECURSIVE CapAfterAppends(_)
CapAfterAppends(n) ==
    IF n = 0 THEN 0
    ELSE LET c == CapAfterAppends(n - 1)
         IN  IF n <= c THEN c ELSE GrowCap(c, n)

\* the exposed ports and the binding lists a PublishedPorts object shows
View(arrs, p) ==
    [ExposedPorts |-> p.ExposedPorts,
     PortBindings |-> [k \in DOMAIN p.PortBindings |-> SliceView(arrs, p.PortBindings[k])]]

\* the object holding the lists of value v, each list in an array of its own: of the
\* capacity its appends gave it (grown), or of exactly its length (make([]T, len(v)))
RECURSIVE StoreKeys(_, _, _, _, _)
StoreKeys(arrs, acc, v, keys, grown) ==
    IF keys = {} THEN [arrays |-> arrs,
                       ports |-> [ExposedPorts |-> v.ExposedPorts, PortBindings |-> acc]]
    ELSE LET k == CHOOSE x \in keys : TRUE
             l == v.PortBindings[k]
             cap == IF grown THEN CapAfterAppends(Len(l)) ELSE Len(l)
         IN  StoreKeys(Append(arrs, Padded(l, cap)),
                       MapSet(acc, k, [arr |-> Len(arrs) + 1, len |-> Len(l)]),
                       v, keys \ {k}, grown)

Store(arrs, v, grown) == StoreKeys(arrs, EmptyMap, v, DOMAIN v.PortBindings, grown)

\* the loop "Add new ports" of AddPort over the port mappings
RECURSIVE AddPortMappings(_, _, _)
AddPortMappings(arrs, p, mappings) ==
    IF mappings = <<>> THEN [arrays |-> arrs, ports |-> p]
    ELSE LET port == Head(mappings).Port
             bslice == IF port \in DOMAIN p.PortBindings THEN p.PortBindings[port]
                       ELSE NilSlice
             a == AppendBinding(arrs, bslice, Head(mappings).Binding)
         IN  AddPortMappings(a.arrays,
                             [ExposedPorts |-> p.ExposedPorts \cup {port},
                              PortBindings |-> MapSet(p.PortBindings, port, a.slice)],
                             Tail(mappings))

\* mutant of AddPort: the container port is not added to the exposed ports
AddPort_NoExpose(arrs, p, portSpec) ==
    LET parsed == ParsePortSpec(portSpec)
        r == AddPortMappings(arrs, p, parsed.mappings)
    IN  IF ~parsed.ok
        THEN [ok |-> FALSE, arrays |-> arrs, ports |-> EmptyPublishedPorts]
        ELSE [ok |-> TRUE, arrays |-> r.arrays,
              ports |-> [r.ports EXCEPT !.ExposedPorts = p.ExposedPorts]]

\* mutant of AddPort: the new binding replaces the bindings of its container port
AddPort_Replace(arrs, p, portSpec) ==
    LET parsed == ParsePortSpec(portSpec)
        ports == {parsed.mappings[i].Port : i \in 1..Len(parsed.mappings)}
        r == AddPortMappings(arrs,
                             [ExposedPorts |-> p.ExposedPorts,
                              PortBindings |-> [k \in (DOMAIN p.PortBindings) \ ports |->
                                                    p.PortBindings[k]]],
                             parsed.mappings)
    IN  IF ~parsed.ok
        THEN [ok |-> FALSE, arrays |-> arrs, ports |-> EmptyPublishedPorts]
        ELSE [ok |-> TRUE, arrays |-> r.arrays, ports |-> r.ports]

\* p.AddPort(portSpec): [ok, arrays, ports]; the two new maps start as copies of p's,
\* so the new object holds p's slice headers; nil is returned with an error
AddPort(arrs, p, portSpec) ==
    LET parsed == ParsePortSpec(portSpec)
        r == AddPortMappings(arrs, p, parsed.mappings)
    IN  IF ~parsed.ok
        THEN [ok |-> FALSE, arrays |-> arrs, ports |-> EmptyPublishedPorts]
        ELSE [ok |-> TRUE, arrays |-> r.arrays, ports |-> r.ports]

-----------------------------------------------------------------------------
(* util.go: CheckClusterName                                               *)

clusterNameMaxSize == 35

\* mutant of CheckClusterName: the length is not checked
CheckClusterName_NoLength(n) == ValidateHostname(n)

\* TRUE when CheckClusterName(name) returns nil
CheckClusterName(n) == ValidateHostname(n) /\ Len(n) <= clusterNameMaxSize

-----------------------------------------------------------------------------
(* Inputs of the bounded checks                                            *)

\* the cluster name of the checks: "c"
sC == <<"c">>

\* binding portions
b80 == <<"8", "0", ":", "8", "0">>
b90 == <<"9", "0", ":", "9", "0">>

\* the number of workers whose names occur as keys and as merge targets
MaxMergeWorkers == 2

\* the total number of bindings registered in a node-to-port-spec map
MaxRegs == 3

BoundedSeq(S, n) == UNION {[1..k -> S] : k \in 0..n}

MergeBindings == {b80, b90}

MergeNames ==
    {ServerContainerName(sC)} \cup {WorkerContainerName(sC, i) : i \in 0..(MaxMergeWorkers - 1)}

GroupKeys == {sAll, sWorkers, sServer, sMaster}

MergeKeys == GroupKeys \cup MergeNames

\* the map in which the bindings regs[i][2] were appended under the keys regs[i][1], in order
RECURSIVE MapOfRegs(_, _)
MapOfRegs(m, regs) ==
    IF regs = <<>> THEN m
    ELSE MapOfRegs(MapSet(m, Head(regs)[1], Append(Lookup(m, Head(regs)[1]), Head(regs)[2])),
                   Tail(regs))

\* the (role, name) pairs createServer and createWorker call MergePortSpecs with
MergeTargets ==
    {<<sServer, ServerContainerName(sC)>>}
    \cup {<<sWorker, WorkerContainerName(sC, i)>> : i \in 0..(MaxMergeWorkers - 1)}

-----------------------------------------------------------------------------
(* SpecMerge: MergePortSpecs applied to every bounded map                  *)

InitMerge ==
    /\ pc = "merge"
    /\ NoLifecycle
    /\ steps = <<>>
    /\ \E regs \in BoundedSeq(MergeKeys \X MergeBindings, MaxRegs) :
          nodeToPortSpecMap = MapOfRegs(EmptyMap, regs)
    /\ \E t \in MergeTargets : role = t[1] /\ name = t[2]
    /\ portSpecs = <<>>
    /\ specs = <<>>
    /\ createdNodes = <<>>
    /\ err = FALSE
    /\ warnings = <<>>
    /\ extracted = <<>>
    /\ clusterName = sC
    /\ workers = 0
    /\ portAutoOffset = 0
    /\ nextWorker = 0
    /\ containers = EmptyMap
    /\ arrays = <<>>
    /\ publishedPorts = <<>>
    /\ trace = <<>>

Merge ==
    /\ pc = "merge"
    /\ portSpecs' = MergePortSpecs(nodeToPortSpecMap, role, name)
    /\ pc' = "merged"
    /\ UNCHANGED <<resolveVars, role, name, clusterVars, portVars, lifeVars, steps>>

NextMerge == Merge

SpecMerge == InitMerge /\ [][NextMerge]_vars

\* the entries of list l whose value did not occur earlier in l, in order
FirstOccurrences(l) ==
    LET keep == {i \in 1..Len(l) : \A j \in 1..(i - 1) : l[j] # l[i]}
    IN  [k \in 1..Cardinality(keep) |->
            l[CHOOSE i \in keep : Cardinality({j \in keep : j <= i}) = k]]

\* the groups of a role, in the order the claims state them
GroupsInOrder(r) == IF r = sServer THEN <<sAll, sServer, sMaster>> ELSE <<sAll, sWorkers>>

\* every binding under the role's groups in order, then every binding under the name
WalkOf(m, r, n) ==
    LET g == GroupsInOrder(r)
        RECURSIVE Cat(_)
        Cat(i) == IF i > Len(g) THEN <<>> ELSE Lookup(m, g[i]) \o Cat(i + 1)
    IN  Cat(1) \o Lookup(m, n)

ExampleMap == (sAll :> <<b80>>) @@ (WorkerContainerName(sC, 0) :> <<b90>>)

\* C1: the merged list is the walk over the role's groups in the fixed order (all,
\* server, master for a server; all, workers for a worker) followed by the bindings
\* under the container name, each binding appended only when not yet in the list;
\* {"all": ["80:80"], "k3d-c-worker-0": ["90:90"]} merged for worker k3d-c-worker-0
\* gives ["80:80", "90:90"].
C1_MergeIsOrderedWalk ==
    pc = "merged" =>
        /\ portSpecs = FirstOccurrences(WalkOf(nodeToPortSpecMap, role, name))
        /\ (nodeToPortSpecMap = ExampleMap /\ role = sWorker
                /\ name = WorkerContainerName(sC, 0))
            => portSpecs = <<b80, b90>>

C1_Witness ==
    /\ pc = "merged"
    /\ nodeToPortSpecMap = ExampleMap
    /\ role = sWorker
    /\ name = WorkerContainerName(sC, 0)
    /\ portSpecs = <<b80, b90>>

\* C2: the merged list never holds the same binding twice.
C2_MergeHasNoDuplicates ==
    pc = "merged" =>
        \A i, j \in 1..Len(portSpecs) : i # j => portSpecs[i] # portSpecs[j]

\* a binding repeated in one list, and registered under a group key and under the name
C2_Witness ==
    /\ pc = "merged"
    /\ \E b \in MergeBindings :
          /\ \E i, j \in 1..Len(Lookup(nodeToPortSpecMap, sAll)) :
                i # j /\ nodeToPortSpecMap[sAll][i] = b /\ nodeToPortSpecMap[sAll][j] = b
          /\ b \in Elems(Lookup(nodeToPortSpecMap, name))
          /\ b \in Elems(portSpecs)

\* list l with its entries in the order given by the permutation p of its indices
Permuted(l, p) == [i \in 1..Len(l) |-> l[p[i]]]

\* C3: permuting the bindings registered under one group key, every other key
\* unchanged, does not change the set of bindings MergePortSpecs returns.
C3_MergeSetIgnoresOrderInGroup ==
    pc = "merged" =>
        \A k \in GroupKeys \cap DOMAIN nodeToPortSpecMap :
            \A p \in Permutations(1..Len(nodeToPortSpecMap[k])) :
                Elems(MergePortSpecs(
                        [nodeToPortSpecMap EXCEPT ![k] = Permuted(nodeToPortSpecMap[k], p)],
                        role, name))
                    = Elems(portSpecs)

\* a group of the role holds two different bindings, so a permutation changes its list
C3_Witness ==
    /\ pc = "merged"
    /\ \E k \in Elems(GroupsInOrder(role)) :
          /\ Cardinality(Elems(Lookup(nodeToPortSpecMap, k))) >= 2
          /\ Elems(Lookup(nodeToPortSpecMap, k)) \subseteq Elems(portSpecs)

\* the keys under which binding b is registered
KeysOf(m, b) == {k \in DOMAIN m : b \in Elems(m[k])}

\* C4: a binding registered only under "workers" is merged for every worker and for no
\* server; one registered only under "server" or "master" is merged for the server and
\* for no worker; one registered only under another container's name is merged for no
\* other container.
C4_MergeRespectsRoleGroups ==
    pc = "merged" =>
        \A b \in MergeBindings :
            LET ks == KeysOf(nodeToPortSpecMap, b)
            IN  /\ ks = {sWorkers} => (b \in Elems(portSpecs) <=> role = sWorker)
                /\ (ks # {} /\ ks \subseteq {sServer, sMaster})
                        => (b \in Elems(portSpecs) <=> role = sServer)
                /\ (ks # {} /\ ks \subseteq (MergeNames \ {name}))
                        => b \notin Elems(portSpecs)

\* a worker merged a map with one binding only under "workers" and another only under
\* the name of a different container
C4_Witness ==
    /\ pc = "merged"
    /\ role = sWorker
    /\ \E b1, b2 \in MergeBindings :
          /\ KeysOf(nodeToPortSpecMap, b1) = {sWorkers}
          /\ KeysOf(nodeToPortSpecMap, b2) # {}
          /\ KeysOf(nodeToPortSpecMap, b2) \subseteq (MergeNames \ {name})
          /\ b1 \in Elems(portSpecs)
          /\ b2 \notin Elems(portSpecs)

-----------------------------------------------------------------------------
(* SpecResolve: mapNodesToPortSpecs applied to bounded publish lists       *)

\* the number of publish specs of one call
MaxSpecs == 2

sBogusNode == <<"b", "o", "g", "u", "s", "-", "n", "o", "d", "e">>

\* "6443:6443"
b6443 == <<"6", "4", "4", "3", ":", "6", "4", "4", "3">>

\* "99999:80": host port out of range
sBadHostPort == <<"9", "9", "9", "9", "9", ":", "8", "0">>

\* "80:99999": container port out of range
sBadContainerPort == <<"8", "0", ":", "9", "9", "9", "9", "9">>

\* "80:80@": an empty node specifier
sEmptySpecifier == b80 \o <<"@">>

\* "90:90@all@no_de": a node specifier that is no hostname
sBadSpecifier == b90 \o <<"@">> \o sAll \o <<"@">> \o <<"n", "o", "_", "d", "e">>

\* binding "@" node "@" node ...
SpecOf(binding, nodes) == Join(<<binding>> \o nodes, "@")

\* the publish specs of the checks: without specifier, with role keywords, with a
\* repeated specifier, with a name that is never created, with a worker name (not
\* created when workers = 0), with the server container's name, and four invalid ones
PublishSpecs ==
    { b80,
      SpecOf(b80, <<sAll>>),
      SpecOf(b90, <<sAll>>),
      SpecOf(b80, <<sAll, sAll>>),
      SpecOf(b80, <<sBogusNode, sAll>>),
      SpecOf(b90, <<WorkerContainerName(sC, 0)>>),
      SpecOf(b90, <<sWorkers, WorkerContainerName(sC, 0)>>),
      SpecOf(b6443, <<ServerContainerName(sC)>>),
      sBadHostPort, sBadContainerPort, sEmptySpecifier, sBadSpecifier }

\* c.Int("workers") of the checked calls
WorkerCounts == {0, 1}

InitResolve ==
    /\ pc = "resolve"
    /\ NoLifecycle
    /\ steps = <<>>
    /\ specs \in BoundedSeq(PublishSpecs, MaxSpecs)
    /\ \E w \in WorkerCounts :
          /\ workers = w
          /\ createdNodes = GetAllContainerNames(sC, 1, w)
    /\ nodeToPortSpecMap = EmptyMap
    /\ err = FALSE
    /\ warnings = <<>>
    /\ extracted = <<>>
    /\ role = <<>>
    /\ name = <<>>
    /\ portSpecs = <<>>
    /\ clusterName = sC
    /\ portAutoOffset = 0
    /\ nextWorker = 0
    /\ containers = EmptyMap
    /\ arrays = <<>>
    /\ publishedPorts = <<>>
    /\ trace = <<>>

\* the call mapNodesToPortSpecs(specs, createdNodes)
MapNodes ==
    /\ pc = "resolve"
    /\ LET r == mapNodesToPortSpecs(specs, createdNodes)
       IN  /\ nodeToPortSpecMap' = r.map
           /\ err' = r.err
           /\ warnings' = r.warnings
           /\ extracted' = IF r.err THEN <<>>
                           ELSE [i \in 1..Len(specs) |-> extractNodes(specs[i])]
    /\ pc' = "resolved"
    /\ UNCHANGED <<specs, createdNodes, mergeVars, clusterVars, portVars, lifeVars, steps>>

NextResolve == MapNodes

SpecResolve == InitResolve /\ [][NextResolve]_vars

\* validSpecifiers = {all, workers, server, master} united with the created node names
ValidSpecifiers(created) == GroupKeys \cup Elems(created)

\* the text of s before its first "@" (all of s when it has none)
BeforeFirstAt(s) ==
    LET ats == {i \in 1..Len(s) : s[i] = "@"}
    IN  IF ats = {} THEN s ELSE SubSeq(s, 1, (CHOOSE i \in ats : \A j \in ats : i <= j) - 1)

\* the node specifiers written in s: the texts between its "@" separators, in order
WrittenNodes(s) ==
    LET ats == {i \in 1..Len(s) : s[i] = "@"}
        nth(k) == CHOOSE i \in ats : Cardinality({j \in ats : j <= i}) = k
        stop(k) == IF k = Cardinality(ats) THEN Len(s) ELSE nth(k + 1) - 1
    IN  [k \in 1..Cardinality(ats) |-> SubSeq(s, nth(k) + 1, stop(k))]

\* C5: with only syntactically valid specs, a node specifier that is neither a role
\* keyword nor a created node name yields no error and no key of its own (every key of
\* the map is a valid specifier), and the binding is still registered under every valid
\* specifier of the same spec.
C5_UnknownSpecifierDropped ==
    (pc = "resolved" /\ \A i \in 1..Len(specs) : ValidSpec(specs[i])) =>
        /\ ~err
        /\ DOMAIN nodeToPortSpecMap \subseteq ValidSpecifiers(createdNodes)
        /\ \A i \in 1..Len(specs) :
              \A n \in Elems(WrittenNodes(specs[i])) :
                  IF n \in ValidSpecifiers(createdNodes)
                  THEN BeforeFirstAt(specs[i]) \in Elems(Lookup(nodeToPortSpecMap, n))
                  ELSE /\ n \notin DOMAIN nodeToPortSpecMap
                       /\ \E k \in 1..Len(warnings) : warnings[k] = <<n, specs[i]>>

\* one spec names an unknown specifier and a valid one
C5_Witness ==
    /\ pc = "resolved"
    /\ ~err
    /\ \E i \in 1..Len(specs) :
          /\ sBogusNode \in Elems(WrittenNodes(specs[i]))
          /\ sAll \in Elems(WrittenNodes(specs[i]))
          /\ BeforeFirstAt(specs[i]) \in Elems(Lookup(nodeToPortSpecMap, sAll))
    /\ sBogusNode \notin DOMAIN nodeToPortSpecMap

\* the node specifiers of s as the resolver sees them: the written ones, or the one
\* default specifier when none is written
NamedNodes(s) == IF WrittenNodes(s) = <<>> THEN <<defaultNodes>> ELSE WrittenNodes(s)

\* the number of entries of list l equal to x
Count(l, x) == Cardinality({i \in 1..Len(l) : l[i] = x})

RECURSIVE Repeat(_, _)
Repeat(x, n) == IF n = 0 THEN <<>> ELSE <<x>> \o Repeat(x, n - 1)

\* the bindings of the specs that name k, one entry per spec, in input order
RECURSIVE OnePerSpec(_, _)
OnePerSpec(ss, k) ==
    IF ss = <<>> THEN <<>>
    ELSE (IF k \in Elems(NamedNodes(Head(ss))) THEN <<BeforeFirstAt(Head(ss))>> ELSE <<>>)
         \o OnePerSpec(Tail(ss), k)

\* the bindings of the specs that name k, one entry per occurrence of k in the spec
RECURSIVE OnePerOccurrence(_, _)
OnePerOccurrence(ss, k) ==
    IF ss = <<>> THEN <<>>
    ELSE Repeat(BeforeFirstAt(Head(ss)), Count(NamedNodes(Head(ss)), k))
         \o OnePerOccurrence(Tail(ss), k)

\* C6 (as stated): for every valid specifier key the stored list is the sequence of
\* binding portions of the input specs that name the key, one per spec, in input order.
C6_ListIsOnePerSpec ==
    (pc = "resolved" /\ ~err) =>
        \A k \in ValidSpecifiers(createdNodes) :
            Lookup(nodeToPortSpecMap, k) = OnePerSpec(specs, k)

\* C6 (amended): for every valid specifier key the stored list holds, in input order,
\* the binding portion of each input spec once per occurrence of the key among the
\* spec's node specifiers (a spec written without "@" names the default specifier
\* once); repeated bindings are kept.
C6_ListIsOnePerOccurrence ==
    (pc = "resolved" /\ ~err) =>
        \A k \in ValidSpecifiers(createdNodes) :
            Lookup(nodeToPortSpecMap, k) = OnePerOccurrence(specs, k)

\* two specs register the same binding under one key, and the list keeps both
C6_Witness ==
    /\ pc = "resolved"
    /\ ~err
    /\ Len(specs) = 2
    /\ BeforeFirstAt(specs[1]) = BeforeFirstAt(specs[2])
    /\ sAll \in Elems(WrittenNodes(specs[1]))
    /\ sAll \in Elems(WrittenNodes(specs[2]))
    /\ Len(Lookup(nodeToPortSpecMap, sAll)) >= 2

\* C7: when any spec of the list fails validation, whatever its position,
\* mapNodesToPortSpecs returns an error and no map: nothing is registered.
C7_InvalidSpecFailsWholeCall ==
    (/\ pc = "resolved"
     /\ \E i \in 1..Len(specs) :
           \/ specs[i] \in {sBadHostPort, sBadContainerPort, sEmptySpecifier, sBadSpecifier}
           \/ ~ParsePortSpec(BeforeFirstAt(specs[i])).ok
           \/ \E n \in Elems(WrittenNodes(specs[i])) : ~ValidateHostname(n))
    => (err /\ nodeToPortSpecMap = EmptyMap)

\* a valid spec comes first, the invalid one ("80:80@") second
C7_Witness ==
    /\ pc = "resolved"
    /\ Len(specs) = 2
    /\ ValidSpec(specs[1])
    /\ specs[2] = sEmptySpecifier
    /\ err
    /\ nodeToPortSpecMap = EmptyMap

\* C8: extractNodes splits on "@": the binding portion is the text before the first
\* "@", the node specifiers are the remaining elements in order; a spec without "@"
\* gets exactly one default specifier, and the resolver registers its binding under
\* exactly that one key.
C8_ParseSplitsOnAt ==
    (pc = "resolved" /\ ~err) =>
        /\ Len(extracted) = Len(specs)
        /\ \A i \in 1..Len(specs) :
              /\ extracted[i].portSpec = BeforeFirstAt(specs[i])
              /\ WrittenNodes(specs[i]) # <<>> => extracted[i].nodes = WrittenNodes(specs[i])
              /\ WrittenNodes(specs[i]) = <<>> => Len(extracted[i].nodes) = 1
        /\ (Len(specs) = 1 /\ WrittenNodes(specs[1]) = <<>>) =>
              /\ DOMAIN nodeToPortSpecMap = {extracted[1].nodes[1]}
              /\ nodeToPortSpecMap[extracted[1].nodes[1]] = <<specs[1]>>

\* a single spec without "@" was resolved
C8_Witness ==
    /\ pc = "resolved"
    /\ ~err
    /\ specs = <<b80>>
    /\ extracted = <<[nodes |-> <<defaultNodes>>, portSpec |-> b80]>>
    /\ DOMAIN nodeToPortSpecMap = {defaultNodes}

-----------------------------------------------------------------------------
(* Spec: CreateCluster, from the flags to the last worker                  *)

defaultServerCount == 1

\* the default of --api-port
sApiPort == <<"6", "4", "4", "3">>

\* c.Int("workers") ranges over 0..MaxWorkers
MaxWorkers == 2

\* c.Int("port-auto-offset") ranges over 0..MaxAutoOffset
MaxAutoOffset == 1

\* the number of --publish flags of one call
MaxPublish == 2

\* the cluster names of the checks: "c", and "-c", which CheckClusterName rejects
ClusterNames == {sC, <<"-", "c">>}

\* the --publish values of the checks
ClusterPublishSpecs ==
    { b80,
      SpecOf(b90, <<sAll>>),
      SpecOf(b80, <<sBogusNode, sAll>>),
      SpecOf(b90, <<sWorkers, WorkerContainerName(sC, 0)>>),
      SpecOf(b6443, <<ServerContainerName(sC)>>),
      sBadHostPort, sBadContainerPort }

\* "K3S_<key>=<value>": one entry of an environment
EnvEntry(k, v) == [key |-> k, value |-> v]

\* GenerateRandomString(20): the twenty random characters are left opaque
sRandom == <<"?">>

\* env of CreateCluster: the kubeconfig output, the --env values (none is given), the
\* cluster secret and the token
ClusterEnv ==
    << EnvEntry("K3S_KUBECONFIG_OUTPUT",
                <<"/", "o", "u", "t", "p", "u", "t", "/", "k", "u", "b", "e", "c", "o", "n",
                  "f", "i", "g", ".", "y", "a", "m", "l">>),
       EnvEntry("K3S_CLUSTER_SECRET", sRandom),
       EnvEntry("K3S_TOKEN", sRandom) >>

\* fmt.Sprintf("K3S_URL=https://k3d-%s-server:%s", spec.ClusterName, spec.ApiPort)
ServerURL(cluster, port) ==
    EnvEntry("K3S_URL",
             <<"h", "t", "t", "p", "s", ":", "/", "/", "k", "3", "d", "-">> \o cluster
                 \o <<"-", "s", "e", "r", "v", "e", "r", ":">> \o port)

\* startContainer: the image pull or ContainerCreate fails and no container exists, or
\* ContainerStart fails and the container exists without running, or the container runs
StartOutcomes == IF faulty THEN {"ok", "notCreated", "notStarted"} ELSE {"ok"}

\* the containers whose ContainerRemove call fails
RemoveFailures(conts) == IF faulty THEN SUBSET (DOMAIN conts) ELSE {{}}

\* whether NetworkRemove fails
NetworkRemoveFailures == IF faulty THEN BOOLEAN ELSE {FALSE}

\* the docker host without container id
Without(conts, id) == [n \in (DOMAIN conts) \ {id} |-> conts[n]]

\* removeContainer(ID) on the docker host st: the call is recorded, the container is gone
\* unless the call fails
removeContainer(st, id, fails) ==
    [st EXCEPT !.events = Append(@, [op |-> "removeContainer", id |-> id,
                                     ok |-> id \notin fails]),
               !.containers = IF id \in fails THEN @ ELSE Without(@, id)]

\* getClusters: the worker containers of the cluster (label component=worker), listed
\* in the order of their indexes
ListWorkers(conts, cluster) ==
    SelectSeq([i \in 1..Cardinality(DOMAIN conts) |-> GetContainerName(sWorker, cluster, i - 1)],
              LAMBDA w : w \in DOMAIN conts)

\* DeleteCluster's loop over cluster.workers: a failed removal is logged, the loop goes on
RECURSIVE RemoveWorkers(_, _, _)
RemoveWorkers(st, ws, fails) ==
    IF ws = <<>> THEN st
    ELSE RemoveWorkers(removeContainer(st, Head(ws), fails), Tail(ws), fails)

\* deleteClusterDir(cluster.name)
deleteClusterDir(st, cluster) ==
    [st EXCEPT !.events = Append(@, [op |-> "deleteClusterDir", id |-> cluster, ok |-> TRUE]),
               !.clusterDir = FALSE]

\* DeleteCluster after the removal of the server was tried: an error is returned when it
\* failed, otherwise the cluster network is removed (a failure is only logged)
RemoveNetwork_Always(st, cluster, serverFailed, netFails) ==
    [st EXCEPT !.events = Append(@, [op |-> "deleteClusterNetwork", id |-> cluster,
                                     ok |-> ~netFails]),
               !.network = IF netFails THEN @ ELSE FALSE,
               !.err = serverFailed]

RemoveNetwork(st, cluster, serverFailed, netFails) ==
    IF serverFailed THEN [st EXCEPT !.err = TRUE]
    ELSE [st EXCEPT !.events = Append(@, [op |-> "deleteClusterNetwork", id |-> cluster,
                                          ok |-> ~netFails]),
                    !.network = IF netFails THEN @ ELSE FALSE]

\* DeleteCluster for one cluster name on the docker host st = [containers, network,
\* clusterDir, events, err]: getClusters finds the cluster by its server container; the
\* workers are removed, then the directory, then the server, then the network
DeleteClusterOf(st, cluster, fails, netFails) ==
    IF ServerContainerName(cluster) \notin DOMAIN st.containers THEN st
    ELSE RemoveNetwork(
            removeContainer(
                deleteClusterDir(
                    RemoveWorkers(st, ListWorkers(st.containers, cluster), fails), cluster),
                ServerContainerName(cluster), fails),
            cluster, ServerContainerName(cluster) \in fails, netFails)

\* the docker host with the containers conts
HostWith(conts) ==
    [containers |-> conts, network |-> network, clusterDir |-> clusterDir,
     events |-> events, err |-> FALSE]

\* the docker host becomes st
HostBecomes(st) ==
    /\ containers' = st.containers
    /\ network' = st.network
    /\ clusterDir' = st.clusterDir
    /\ events' = st.events

\* deleteCluster(), the closure of CreateCluster: DeleteCluster(c) runs on the containers
\* conts, its error is only logged
deleteCluster(conts) ==
    \E fails \in RemoveFailures(conts), netFails \in NetworkRemoveFailures :
        HostBecomes(DeleteClusterOf(HostWith(conts), clusterName, fails, netFails))

\* k3d create without --wait on a docker daemon that fails no call; SpecLifecycle
\* below starts CreateCluster with --wait and on a daemon that may fail
Init ==
    /\ pc = "start"
    /\ clusterName \in ClusterNames
    /\ workers \in 0..MaxWorkers
    /\ portAutoOffset \in 0..MaxAutoOffset
    /\ specs \in BoundedSeq(ClusterPublishSpecs, MaxPublish)
    /\ createdNodes = <<>>
    /\ nodeToPortSpecMap = EmptyMap
    /\ err = FALSE
    /\ warnings = <<>>
    /\ extracted = <<>>
    /\ role = <<>>
    /\ name = <<>>
    /\ portSpecs = <<>>
    /\ nextWorker = 0
    /\ containers = EmptyMap
    /\ arrays = <<>>
    /\ publishedPorts = <<>>
    /\ trace = <<>>
    /\ NoLifecycle
    /\ steps = <<>>

\* CreateCluster up to the creation of the server: the cluster name is checked, the
\* cluster network is created, the environment is put together, then the publish specs
\* are mapped to the names GetAllContainerNames lists and the cluster directory is
\* created; an invalid name or a failed network creation returns an error, an invalid
\* publish spec ends the process (log.Fatal)
CreateCluster ==
    /\ pc = "start"
    /\ IF ~CheckClusterName(clusterName)
       THEN /\ pc' = "rejected"
            /\ err' = TRUE
            /\ returned' = "invalid cluster name"
            /\ UNCHANGED <<specs, createdNodes, nodeToPortSpecMap, warnings, extracted,
                           env, network, clusterDir>>
       ELSE \/ /\ faulty
               /\ pc' = "failed"
               /\ err' = TRUE
               /\ returned' = "couldn't create network"
               /\ UNCHANGED <<specs, createdNodes, nodeToPortSpecMap, warnings, extracted,
                              env, network, clusterDir>>
            \/ LET created == GetAllContainerNames(clusterName, defaultServerCount, workers)
                   r == mapNodesToPortSpecs(specs, created)
               IN  /\ network' = TRUE
                   /\ env' = ClusterEnv
                   /\ createdNodes' = created
                   /\ nodeToPortSpecMap' = r.map
                   /\ err' = r.err
                   /\ warnings' = r.warnings
                   /\ extracted' = IF r.err THEN <<>>
                                   ELSE [i \in 1..Len(specs) |-> extractNodes(specs[i])]
                   /\ clusterDir' = ~r.err
                   /\ pc' = IF r.err THEN "fatal" ELSE "server"
                   /\ UNCHANGED <<specs, returned>>
    /\ UNCHANGED <<mergeVars, clusterVars, portVars, waitSet, wait, now, serverLog, faulty,
                   events, steps>>

\* "0.0.0.0:<apiPort>:<apiPort>/tcp"
apiPortSpec ==
    <<"0", ".", "0", ".", "0", ".", "0", ":">> \o sApiPort \o <<":">> \o sApiPort
        \o <<"/">> \o sTcp

\* the end of createServer and createWorker: startContainer(config, hostConfig, ...) for
\* the container n with the configuration c
startContainer(outcome, n, c) ==
    IF outcome = "ok" THEN MapSet(containers, n, [c EXCEPT !.state = "running"])
    ELSE IF outcome = "notStarted" THEN MapSet(containers, n, c)
    ELSE containers

\* CreateCluster after createServer returned: on an error the cluster is deleted and
\* the error returned; otherwise the wait loop follows when --wait is set
ServerCreated(outcome, conts) ==
    IF outcome = "ok"
    THEN /\ containers' = conts
         /\ pc' = IF waitSet THEN "wait" ELSE "workers"
         /\ UNCHANGED <<network, clusterDir, events, returned, err>>
    ELSE /\ deleteCluster(conts)
         /\ pc' = "failed"
         /\ err' = TRUE
         /\ returned' = "couldn't create container"

\* createServer: the container is named GetContainerName("server", name, -1); its ports
\* are the merged specs of role server plus the API port
createServer ==
    /\ pc = "server"
    /\ LET containerName == GetContainerName(sServer, clusterName, 0 - 1)
           serverPorts == MergePortSpecs(nodeToPortSpecMap, sServer, containerName)
           published == CreatePublishedPorts(Append(serverPorts, apiPortSpec))
       IN  /\ role' = sServer
           /\ name' = containerName
           /\ portSpecs' = serverPorts
           /\ IF ~published.ok
              THEN /\ pc' = "fatal"
                   /\ UNCHANGED <<containers, network, clusterDir, events, returned, err>>
              ELSE \E outcome \in StartOutcomes :
                      ServerCreated(outcome,
                          startContainer(outcome, containerName,
                              [role |-> sServer, merged |-> serverPorts,
                               ports |-> published.ports, env |-> env,
                               state |-> "created"]))
    /\ UNCHANGED <<specs, createdNodes, nodeToPortSpecMap, warnings, extracted,
                   clusterName, workers, portAutoOffset, nextWorker, portVars,
                   env, waitSet, wait, now, serverLog, faulty, steps>>

\* the ports of worker number postfix: those built from its merged specs, offset by
\* postfix + port-auto-offset when port-auto-offset is greater than 0
WorkerPublishedPorts_Never(built, postfix, autoOffset) == built

WorkerPublishedPorts_Always(built, postfix, autoOffset) ==
    Offset(built, postfix + autoOffset)

WorkerPublishedPorts(built, postfix, autoOffset) ==
    IF autoOffset > 0 THEN Offset(built, postfix + autoOffset) ELSE built

\* CreateCluster after createWorker returned: on an error the cluster is deleted and
\* the error returned; otherwise the loop goes on
WorkerCreated(outcome, conts) ==
    IF outcome = "ok"
    THEN /\ containers' = conts
         /\ pc' = "workers"
         /\ err' = FALSE
         /\ nextWorker' = nextWorker + 1
         /\ UNCHANGED <<network, clusterDir, events, returned>>
    ELSE /\ deleteCluster(conts)
         /\ pc' = "failed"
         /\ err' = TRUE
         /\ returned' = "couldn't start container"
         /\ UNCHANGED nextWorker

\* createWorker(spec, i): the server's URL is appended to spec.Env; the container is
\* named GetContainerName("worker", name, i); its ports are the merged specs of role
\* worker, offset when port-auto-offset > 0
createWorker ==
    /\ pc = "workers"
    /\ nextWorker < workers
    /\ env' = Append(env, ServerURL(clusterName, sApiPort))
    /\ LET postfix == nextWorker
           containerName == GetContainerName(sWorker, clusterName, postfix)
           workerPorts == MergePortSpecs(nodeToPortSpecMap, sWorker, containerName)
           published == CreatePublishedPorts(workerPorts)
       IN  /\ role' = sWorker
           /\ name' = containerName
           /\ portSpecs' = workerPorts
           /\ IF ~published.ok
              THEN WorkerCreated("notCreated", containers)
              ELSE \E outcome \in StartOutcomes :
                      WorkerCreated(outcome,
                          startContainer(outcome, containerName,
                              [role |-> sWorker, merged |-> workerPorts,
                               ports |-> WorkerPublishedPorts(published.ports, postfix,
                                                              portAutoOffset),
                               env |-> env', state |-> "created"]))
    /\ UNCHANGED <<specs, createdNodes, nodeToPortSpecMap, warnings, extracted,
                   clusterName, workers, portAutoOffset, portVars,
                   waitSet, wait, now, serverLog, faulty, steps>>

\* the worker loop has ended: CreateCluster returns nil
CreateClusterDone ==
    /\ pc = "workers"
    /\ nextWorker >= workers
    /\ pc' = "done"
    /\ returned' = "nil"
    /\ UNCHANGED <<resolveVars, mergeVars, clusterVars, portVars, env, network, clusterDir,
                   waitSet, wait, now, serverLog, faulty, events, steps>>

Next == CreateCluster \/ createServer \/ createWorker \/ CreateClusterDone

Spec == Init /\ [][Next]_vars

\* the publish spec "<binding>@<name of the server container>" is among the flags
PublishesOnServerName(b) ==
    \E i \in 1..Len(specs) : specs[i] = SpecOf(b, <<ServerContainerName(clusterName)>>)

\* C9: a publish spec whose node specifier is the name createServer gives the server
\* container is accepted by the resolver and ends up in the server's merged port list,
\* and in the merged port list of no worker.
C9_ServerNameSpecReachesServer ==
    (pc = "done" /\ PublishesOnServerName(b6443)) =>
        /\ ~err
        /\ ServerContainerName(clusterName) \in DOMAIN containers
        /\ b6443 \in Elems(containers[ServerContainerName(clusterName)].merged)
        /\ \A n \in DOMAIN containers :
              containers[n].role = sWorker => b6443 \notin Elems(containers[n].merged)

\* C10: GetAllContainerNames(name, 1, workers) lists exactly the container names cluster
\* creation uses (the server's name, the name of each worker 0..workers-1, no other
\* name) and lists no name twice.
C10_AllContainerNamesAreTheCreatedOnes ==
    pc = "done" =>
        /\ Elems(createdNodes) = DOMAIN containers
        /\ \A i, j \in 1..Len(createdNodes) : i # j => createdNodes[i] # createdNodes[j]

\* a publish spec of the flags has a host port or a container port above 65535
PublishesOutOfRangePort ==
    \E i \in 1..Len(specs) :
        LET parts == Split(BeforeFirstAt(specs[i]), ":")
        IN  \E k \in 1..Len(parts) :
                /\ parts[k] # <<>>
                /\ Elems(parts[k]) \subseteq DigitChars
                /\ DecimalValue(parts[k], 0) > 65535

-----------------------------------------------------------------------------
(* SpecHostname: ValidateHostname and CheckClusterName applied to names    *)

\* the length of the names built from HostChars
MaxNameLen == 3

\* a letter of each case, a digit, the dash and a character no hostname may hold
HostChars == {"a", "Z", "0", "-", "_"}

\* names around the length limit of cluster names
LongNames ==
    {Repeat("a", n) : n \in 34..37}
    \cup {Repeat("a", 34) \o <<"-">>, Repeat("a", 33) \o <<"_", "a">>,
          <<"Z">> \o Repeat("0", 34)}

HostNames == BoundedSeq(HostChars, MaxNameLen) \cup LongNames

\* worker indexes i of createWorker(spec, i), up to the largest the model's integers hold
WorkerIndexes == {0, 9, 10, 2147483646}

InitHostname ==
    /\ pc = "hostname"
    /\ NoLifecycle
    /\ steps = <<>>
    /\ clusterName \in HostNames
    /\ nextWorker \in WorkerIndexes
    /\ workers = 0
    /\ portAutoOffset = 0
    /\ containers = EmptyMap
    /\ arrays = <<>>
    /\ publishedPorts = <<>>
    /\ trace = <<>>
    /\ specs = <<>>
    /\ createdNodes = <<>>
    /\ nodeToPortSpecMap = EmptyMap
    /\ err = FALSE
    /\ warnings = <<>>
    /\ extracted = <<>>
    /\ role = <<>>
    /\ name = <<>>
    /\ portSpecs = <<>>

\* the call ValidateHostname(name)
ValidateName ==
    /\ pc = "hostname"
    /\ err' = ~ValidateHostname(clusterName)
    /\ pc' = "validated"
    /\ UNCHANGED <<specs, createdNodes, nodeToPortSpecMap, warnings, extracted,
                   mergeVars, clusterVars, portVars, lifeVars, steps>>

\* the call CheckClusterName(name); for an accepted name, the hostnames createServer
\* and createWorker(spec, nextWorker) give their containers (Hostname: containerName)
CheckName ==
    /\ pc = "hostname"
    /\ err' = ~CheckClusterName(clusterName)
    /\ containers' =
          IF CheckClusterName(clusterName)
          THEN MapSet(MapSet(EmptyMap, GetContainerName(sServer, clusterName, 0 - 1),
                             [role |-> sServer, merged |-> <<>>, ports |-> EmptyPublishedPorts]),
                      GetContainerName(sWorker, clusterName, nextWorker),
                      [role |-> sWorker, merged |-> <<>>, ports |-> EmptyPublishedPorts])
          ELSE containers
    /\ pc' = "checked"
    /\ UNCHANGED <<specs, createdNodes, nodeToPortSpecMap, warnings, extracted,
                   mergeVars, clusterName, workers, portAutoOffset, nextWorker, portVars,
                   lifeVars, steps>>

NextHostname == ValidateName \/ CheckName

SpecHostname == InitHostname /\ [][NextHostname]_vars

\* the rules of a hostname: non-empty, no dash at either end, only A-Z, a-z, 0-9 and "-"
HostnameRules(n) ==
    /\ n # <<>>
    /\ Head(n) # "-"
    /\ n[Len(n)] # "-"
    /\ Elems(n) \subseteq (UpperChars \cup LowerChars \cup DigitChars \cup {"-"})

\* C11: ValidateHostname returns no error exactly for the names that are non-empty, do
\* not start with "-", do not end with "-" and consist only of A-Z, a-z, 0-9 and "-".
C11_HostnameAcceptedIffRules ==
    pc = "validated" => (~err <=> HostnameRules(clusterName))

\* a name with an inner dash and characters of every class was accepted
C11_Witness ==
    /\ pc = "validated"
    /\ ~err
    /\ clusterName = <<"Z", "-", "0">>

-----------------------------------------------------------------------------
(* SpecPorts: sequences of CreatePublishedPorts, AddPort and Offset calls  *)

\* the number of calls of one sequence
MaxCalls == 3

\* "81:80", "82:80", "83:80", "84:80": further host ports for container port 80
b81to80 == <<"8", "1", ":", "8", "0">>
b82to80 == <<"8", "2", ":", "8", "0">>
b83to80 == <<"8", "3", ":", "8", "0">>
b84to80 == <<"8", "4", ":", "8", "0">>

\* "80": no host port
sNoHostPort == <<"8", "0">>

\* "80-81:80-81": a range of ports
sPortRange == <<"8", "0", "-", "8", "1", ":", "8", "0", "-", "8", "1">>

\* "65535:80": the highest host port
b65535to80 == <<"6", "5", "5", "3", "5", ":", "8", "0">>

\* the spec lists handed to CreatePublishedPorts: none, the API port with host IP and
\* protocol, a spec without host port, a range, three host ports for one container
\* port, the highest host port, and an invalid spec
CreateLists ==
    { <<>>, <<apiPortSpec>>, <<sNoHostPort>>, <<sPortRange>>,
      <<b80, b81to80, b82to80>>, <<b65535to80>>, <<sBadHostPort>> }

\* the binding portions handed to AddPort
AddBindings == {b83to80, b84to80, sBadHostPort}

\* the offsets handed to Offset
Deltas == {0 - 1, 0, 2}

InitPorts ==
    /\ pc = "ports"
    /\ NoLifecycle
    /\ steps = <<>>
    /\ arrays = <<>>
    /\ publishedPorts = <<>>
    /\ trace = <<>>
    /\ err = FALSE
    /\ specs = <<>>
    /\ createdNodes = <<>>
    /\ nodeToPortSpecMap = EmptyMap
    /\ warnings = <<>>
    /\ extracted = <<>>
    /\ role = <<>>
    /\ name = <<>>
    /\ portSpecs = <<>>
    /\ clusterName = sC
    /\ workers = 0
    /\ portAutoOffset = 0
    /\ nextWorker = 0
    /\ containers = EmptyMap

\* the objects later calls may be made on: those returned without an error
Usable == {i \in 1..Len(trace) : trace[i].ok}

\* p, err := CreatePublishedPorts(ss)
CallCreatePublishedPorts ==
    /\ pc = "ports"
    /\ Len(trace) < MaxCalls
    /\ \E ss \in CreateLists :
          LET r == CreatePublishedPorts(ss)
              st == Store(arrays, r.ports, TRUE)
          IN  /\ arrays' = st.arrays
              /\ publishedPorts' = Append(publishedPorts, st.ports)
              /\ err' = ~r.ok
              /\ trace' = Append(trace,
                    [op |-> "CreatePublishedPorts", base |-> 0, specs |-> ss, delta |-> 0,
                     ok |-> r.ok, input |-> EmptyPublishedPorts, output |-> r.ports])
    /\ UNCHANGED <<pc, specs, createdNodes, nodeToPortSpecMap, warnings, extracted,
                   mergeVars, clusterVars, lifeVars, steps>>

\* q, err := p.AddPort(b), p being object number i; q is nil when err is not
CallAddPort ==
    /\ pc = "ports"
    /\ Len(trace) < MaxCalls
    /\ \E i \in Usable, b \in AddBindings :
          LET r == AddPort(arrays, publishedPorts[i], b)
          IN  /\ arrays' = r.arrays
              /\ publishedPorts' = Append(publishedPorts, r.ports)
              /\ err' = ~r.ok
              /\ trace' = Append(trace,
                    [op |-> "AddPort", base |-> i, specs |-> <<b>>, delta |-> 0,
                     ok |-> r.ok, input |-> View(arrays, publishedPorts[i]),
                     output |-> View(r.arrays, r.ports)])
    /\ UNCHANGED <<pc, specs, createdNodes, nodeToPortSpecMap, warnings, extracted,
                   mergeVars, clusterVars, lifeVars, steps>>

\* q := p.Offset(d), p being object number i: the receiver is passed by value, the
\* binding lists of q are made with make([]nat.PortBinding, len(v))
CallOffset ==
    /\ pc = "ports"
    /\ Len(trace) < MaxCalls
    /\ \E i \in Usable, d \in Deltas :
          LET q == Offset(View(arrays, publishedPorts[i]), d)
              st == Store(arrays, q, FALSE)
          IN  /\ arrays' = st.arrays
              /\ publishedPorts' = Append(publishedPorts, st.ports)
              /\ err' = FALSE
              /\ trace' = Append(trace,
                    [op |-> "Offset", base |-> i, specs |-> <<>>, delta |-> d,
                     ok |-> TRUE, input |-> View(arrays, publishedPorts[i]), output |-> q])
    /\ UNCHANGED <<pc, specs, createdNodes, nodeToPortSpecMap, warnings, extracted,
                   mergeVars, clusterVars, lifeVars, steps>>

NextPorts == CallCreatePublishedPorts \/ CallAddPort \/ CallOffset

SpecPorts == InitPorts /\ [][NextPorts]_vars

\* the parts of a binding portion [ip:][hostPort:]containerPort[/protocol] as written;
\* the protocol is tcp when omitted
WrittenBinding(b) ==
    LET parts == Split(b, ":")
        n == Len(parts)
        cp == Split(parts[n], "/")
    IN  [ip |-> IF n >= 3 THEN parts[1] ELSE <<>>,
         hostPort |-> IF n >= 2 THEN parts[n - 1] ELSE <<>>,
         containerPort |-> cp[1],
         proto |-> IF Len(cp) >= 2 THEN cp[2] ELSE sTcp]

\* the exposed-port key of a binding portion: containerPort/protocol
WrittenKey(b) == WrittenBinding(b).containerPort \o <<"/">> \o WrittenBinding(b).proto

\* the host binding of a binding portion
WrittenHostBinding(b) ==
    [HostIP |-> WrittenBinding(b).ip, HostPort |-> WrittenBinding(b).hostPort]

\* a decimal number
IsNumber(t) == t # <<>> /\ Elems(t) \subseteq DigitChars

\* C14: for every binding portion b accepted by validation, CreatePublishedPorts([b])
\* yields exactly one exposed-port entry, keyed containerPort/protocol of b (tcp when
\* omitted), and at least one host binding for that key with the host IP and host
\* port written in b; "0.0.0.0:6443:6443/tcp" gives 6443/tcp with {0.0.0.0, 6443}.
C14_OneExposedPortPerBinding ==
    \A i \in 1..Len(trace) :
        (/\ trace[i].op = "CreatePublishedPorts"
         /\ Len(trace[i].specs) = 1
         /\ validatePortSpecs(trace[i].specs))
        => LET b == trace[i].specs[1]
               out == trace[i].output
           IN  /\ trace[i].ok
               /\ out.ExposedPorts = {WrittenKey(b)}
               /\ WrittenKey(b) \in DOMAIN out.PortBindings
               /\ WrittenHostBinding(b) \in Elems(out.PortBindings[WrittenKey(b)])

\* C15: in every PublishedPorts reachable by CreatePublishedPorts, AddPort and Offset
\* calls, every key of the port-bindings map is a key of the exposed-ports set.
C15_BindingKeysAreExposed ==
    \A i \in 1..Len(publishedPorts) :
        DOMAIN publishedPorts[i].PortBindings \subseteq publishedPorts[i].ExposedPorts

\* AddPort added a second container port to the result of an Offset call
C15_Witness ==
    \E i \in 1..Len(trace) :
        /\ trace[i].op = "AddPort"
        /\ trace[i].ok
        /\ trace[trace[i].base].op = "Offset"
        /\ Cardinality(DOMAIN publishedPorts[i].PortBindings) = 2
        /\ DOMAIN publishedPorts[i].PortBindings = publishedPorts[i].ExposedPorts

\* C16: AddPort and Offset never change their input: after any sequence of calls, the
\* base and every previously returned result still hold the exposed ports and the
\* binding lists (contents and order) they held when they were produced, also when two
\* AddPort calls on the same base add a binding for the same container port.
C16_ResultsNeverChange ==
    \A i \in 1..Len(trace) :
        trace[i].ok => View(arrays, publishedPorts[i]) = trace[i].output

C18_OffsetAddsDelta ==
    \A i \in 1..Len(trace) :
        trace[i].op = "Offset" =>
            LET p == trace[i].input
                q == trace[i].output
            IN  /\ q.ExposedPorts = p.ExposedPorts
                /\ DOMAIN q.PortBindings = DOMAIN p.PortBindings
                /\ \A k \in DOMAIN p.PortBindings :
                      /\ Len(q.PortBindings[k]) = Len(p.PortBindings[k])
                      /\ \A j \in 1..Len(p.PortBindings[k]) :
                            /\ q.PortBindings[k][j].HostIP = p.PortBindings[k][j].HostIP
                            /\ IsNumber(p.PortBindings[k][j].HostPort) =>
                                  q.PortBindings[k][j].HostPort =
                                      Itoa(DecimalValue(p.PortBindings[k][j].HostPort, 0)
                                           + trace[i].delta)

\* C19: for every p produced by CreatePublishedPorts, also with a host port left
\* unspecified, Offset(p, 0) has the exposed ports and the binding values of p.
C19_OffsetZeroIsNoOp ==
    \A i \in 1..Len(trace) :
        (/\ trace[i].op = "Offset"
         /\ trace[i].delta = 0
         /\ trace[trace[i].base].op = "CreatePublishedPorts")
        => trace[i].output = trace[i].input

\* C20: Offset(Offset(p, d1), d2) equals Offset(p, d1 + d2) for all integers d1, d2.
C20_OffsetsCompose ==
    \A j, k \in 1..Len(trace) :
        (/\ trace[j].op = "Offset"
         /\ trace[k].op = "Offset"
         /\ trace[k].base = j)
        => trace[k].output = Offset(trace[j].input, trace[j].delta + trace[k].delta)

-----------------------------------------------------------------------------
(* Spec: the port bindings of the containers of one cluster                *)

\* the position of spec number n of the merged list l among the specs of l that have
\* its container port and protocol
PosInKey(l, n) == Cardinality({m \in 1..n : WrittenKey(l[m]) = WrittenKey(l[n])})

\* the host port the container c binds for spec number n of its merged list
BoundHostPort(c, n) ==
    c.ports.PortBindings[WrittenKey(c.merged[n])][PosInKey(c.merged, n)].HostPort

\* the worker containers created so far
WorkerContainers == {n \in DOMAIN containers : containers[n].role = sWorker}

WorkerIndexOf(n) == CHOOSE i \in 0..(workers - 1) : n = WorkerContainerName(clusterName, i)

\* the ports CreatePublishedPorts builds from a list of binding portions
BuiltFrom(l) == CreatePublishedPorts(l).ports

ProtoOfKey(k) == Split(k, "/")[2]

\* the (host IP, host port, protocol) triples the container c binds
HostBindings(c) ==
    UNION {{<<c.ports.PortBindings[k][i].HostIP, c.ports.PortBindings[k][i].HostPort,
              ProtoOfKey(k)>> : i \in 1..Len(c.ports.PortBindings[k])}
           : k \in DOMAIN c.ports.PortBindings}

\* every publish spec of the flags has an explicit host port, and no two have the same
DistinctExplicitHostPorts ==
    /\ \A i \in 1..Len(specs) : WrittenBinding(BeforeFirstAt(specs[i])).hostPort # <<>>
    /\ \A i, j \in 1..Len(specs) :
          i # j => WrittenBinding(BeforeFirstAt(specs[i])).hostPort
                     # WrittenBinding(BeforeFirstAt(specs[j])).hostPort

\* C28: when port-auto-offset is greater than 0 and the publish specs carry explicit,
\* pairwise distinct host ports, no two containers of the cluster (the server and the
\* workers) are given a binding with the same host IP, host port and protocol.
C28_NoTwoContainersShareHostPort ==
    (portAutoOffset > 0 /\ DistinctExplicitHostPorts) =>
        \A n1, n2 \in DOMAIN containers :
            n1 # n2 => HostBindings(containers[n1]) \cap HostBindings(containers[n2]) = {}

-----------------------------------------------------------------------------
(* SpecResolve: extractNodes and its documentation                          *)

\* C27: for a spec that contains no "@", extractNodes returns the spec unchanged as
\* the binding portion and the node list ["all"], as its documentation states.
C27_NoAtMeansAllNodes ==
    (pc = "resolved" /\ ~err) =>
        \A i \in 1..Len(specs) :
            "@" \notin Elems(specs[i]) =>
                /\ extracted[i].portSpec = specs[i]
                /\ extracted[i].nodes = <<sAll>>

-----------------------------------------------------------------------------
(* SpecPorts: the range of the host ports Offset returns                   *)

\* a port number in 0..65535
ValidPortNumber(t) == IsNumber(t) /\ DecimalValue(t, 0) <= 65535

\* every host port of the PublishedPorts p is a port number in 0..65535
HostPortsValid(p) ==
    \A k \in DOMAIN p.PortBindings :
        \A j \in 1..Len(p.PortBindings[k]) : ValidPortNumber(p.PortBindings[k][j].HostPort)

\* C30: for every PublishedPorts whose host ports are valid (0 to 65535) and every
\* delta = workerIndex + port-auto-offset that createWorker uses (1 or more), every
\* host port in the result of Offset is again a port number in 0 to 65535.
C30_OffsetKeepsPortsInRange ==
    \A i \in 1..Len(trace) :
        (/\ trace[i].op = "Offset"
         /\ trace[i].delta >= 1
         /\ HostPortsValid(trace[i].input))
        => HostPortsValid(trace[i].output)

-----------------------------------------------------------------------------
(* Spec: the environment of the worker containers                          *)

\* the number of K3S_URL entries of the environment e
ServerURLEntries(e) == Cardinality({i \in 1..Len(e) : e[i].key = "K3S_URL"})

\* C29: the environment handed to every worker container created by the
\* createWorker(spec, i) loop has exactly one K3S_URL entry, and the environment of the
\* shared ClusterSpec is after each createWorker call what it was before the loop.
C29_OneServerURLPerWorker ==
    (pc = "workers" \/ pc = "done") =>
        /\ \A n \in WorkerContainers : ServerURLEntries(containers[n].env) = 1
        /\ env = ClusterEnv

-----------------------------------------------------------------------------
(* SpecLifecycle: CreateCluster with --wait on a docker daemon that may    *)
(* fail, and DeleteCluster                                                 *)

\* c.Int("wait") ranges over 0..MaxWait when --wait is given
MaxWait == 1

\* the clock stops after MaxClock seconds
MaxClock == 2

\* the --publish values of these checks
LifecyclePublishLists == {<<>>, <<SpecOf(b90, <<sAll>>)>>}

InitLifecycle ==
    /\ pc = "start"
    /\ clusterName = sC
    /\ workers \in 0..MaxWorkers
    /\ portAutoOffset = 0
    /\ specs \in LifecyclePublishLists
    /\ createdNodes = <<>>
    /\ nodeToPortSpecMap = EmptyMap
    /\ err = FALSE
    /\ warnings = <<>>
    /\ extracted = <<>>
    /\ role = <<>>
    /\ name = <<>>
    /\ portSpecs = <<>>
    /\ nextWorker = 0
    /\ containers = EmptyMap
    /\ arrays = <<>>
    /\ publishedPorts = <<>>
    /\ trace = <<>>
    /\ env = <<>>
    /\ network = FALSE
    /\ clusterDir = FALSE
    /\ \/ waitSet = FALSE /\ wait = 0
       \/ waitSet = TRUE /\ wait \in 0..MaxWait
    /\ now = 0
    /\ serverLog = FALSE
    /\ faulty \in BOOLEAN
    /\ returned = ""
    /\ events = <<>>
    /\ steps = <<>>

\* one pass of the loop "for c.IsSet("wait")" of CreateCluster: the test of the
\* timeout, which deletes the cluster and returns an error; the read of the server's
\* log, whose failure ends the process (out.Close() on the nil reader); the search for
\* "Running kubelet", which ends the loop; the sleep of one second
waitForServer ==
    /\ pc = "wait"
    /\ IF wait # 0 /\ ~(now > wait)
       THEN /\ deleteCluster(containers)
            /\ pc' = "failed"
            /\ err' = TRUE
            /\ returned' = "cluster creation exceeded specified timeout"
            /\ UNCHANGED now
       ELSE \/ /\ faulty
               /\ pc' = "fatal"
               /\ UNCHANGED <<containers, network, clusterDir, events, err, returned, now>>
            \/ /\ serverLog
               /\ pc' = "workers"
               /\ UNCHANGED <<containers, network, clusterDir, events, err, returned, now>>
            \/ /\ ~serverLog
               /\ now < MaxClock
               /\ now' = now + 1
               /\ UNCHANGED <<pc, containers, network, clusterDir, events, err, returned>>
    /\ UNCHANGED <<specs, createdNodes, nodeToPortSpecMap, warnings, extracted, mergeVars,
                   clusterName, workers, portAutoOffset, nextWorker, portVars,
                   env, waitSet, wait, serverLog, faulty, steps>>

\* the k3s server of the server container writes "Running kubelet" to its log
ServerLogsKubelet ==
    /\ pc = "wait"
    /\ ~serverLog
    /\ serverLog' = TRUE
    /\ UNCHANGED <<pc, resolveVars, mergeVars, clusterVars, portVars, env, network,
                   clusterDir, waitSet, wait, now, faulty, returned, events, steps>>

\* a second passes while CreateCluster is in its wait loop
Tick ==
    /\ pc = "wait"
    /\ now < MaxClock
    /\ now' = now + 1
    /\ UNCHANGED <<pc, resolveVars, mergeVars, clusterVars, portVars, env, network,
                   clusterDir, waitSet, wait, serverLog, faulty, returned, events, steps>>

\* what DeleteCluster returns when it leaves the docker host st
DeleteClusterReturns(st) ==
    /\ HostBecomes(st)
    /\ err' = st.err
    /\ returned' = IF st.err THEN "couldn't remove server" ELSE "nil"

\* the command "k3d delete --name <cluster>" on a created cluster
DeleteCluster ==
    /\ pc = "done"
    /\ \E fails \in RemoveFailures(containers), netFails \in NetworkRemoveFailures :
          DeleteClusterReturns(
              DeleteClusterOf(HostWith(containers), clusterName, fails, netFails))
    /\ pc' = "deleted"
    /\ UNCHANGED <<specs, createdNodes, nodeToPortSpecMap, warnings, extracted, mergeVars,
                   clusterName, workers, portAutoOffset, nextWorker, portVars,
                   env, waitSet, wait, now, serverLog, faulty, steps>>

NextLifecycle == Next \/ waitForServer \/ ServerLogsKubelet \/ Tick \/ DeleteCluster

SpecLifecycle == InitLifecycle /\ [][NextLifecycle]_vars

\* every removal call DeleteCluster made succeeded
RemovalsSucceeded == \A i \in 1..Len(events) : events[i].ok

\* C24: when CreateCluster fails while creating the server or a worker container, its
\* cleanup removes every resource of the cluster: after the error is returned (and no
\* removal call failed) no container, no cluster network and no cluster directory remain.
C24_FailedCreateLeavesNothing ==
    (/\ pc = "failed"
     /\ returned \in {"couldn't create container", "couldn't start container"}
     /\ RemovalsSucceeded)
    => /\ containers = EmptyMap
       /\ ~network
       /\ ~clusterDir

\* C25: with --wait N, N > 0, CreateCluster deletes the cluster and fails with a timeout
\* error only if N seconds have passed since the start of the wait without "Running
\* kubelet" in the server's log; with --wait 0 it never fails with a timeout.
C25_TimeoutOnlyAfterDeadline ==
    returned = "cluster creation exceeded specified timeout" =>
        /\ wait > 0
        /\ now >= wait
        /\ ~serverLog

\* the positions in events of the removal calls for the workers, the server, the network
WorkerRemovals ==
    {i \in 1..Len(events) : /\ events[i].op = "removeContainer"
                            /\ events[i].id # ServerContainerName(clusterName)}

ServerRemovals ==
    {i \in 1..Len(events) : /\ events[i].op = "removeContainer"
                            /\ events[i].id = ServerContainerName(clusterName)}

NetworkRemovals == {i \in 1..Len(events) : events[i].op = "deleteClusterNetwork"}

\* C26: in DeleteCluster the removal of every worker container is attempted before the
\* removal of the server container, a failed worker removal does not stop the deletion,
\* and the cluster network is removed only after the server container was removed
\* successfully; a failed server removal returns an error without removing the network.
C26_DeleteOrder ==
    /\ \A i \in WorkerRemovals, j \in ServerRemovals : i < j
    /\ events # <<>> =>
          /\ ServerRemovals # {}
          /\ \A n \in WorkerContainers :
                \E i \in WorkerRemovals : events[i].id = n /\ ~events[i].ok
    /\ \A j \in NetworkRemovals : \E i \in ServerRemovals : i < j /\ events[i].ok
    /\ \A i \in ServerRemovals :
          ~events[i].ok =>
              /\ NetworkRemovals = {}
              /\ network
              /\ pc = "deleted" => (err /\ returned = "couldn't remove server")

\* k3d delete on a cluster with two workers: the removal of worker 0 failed, worker 1
\* and the server were removed after it, then the network
C26_Witness ==
    /\ pc = "deleted"
    /\ Len(events) = 5
    /\ events[1].id = WorkerContainerName(clusterName, 0) /\ ~events[1].ok
    /\ events[2].id = WorkerContainerName(clusterName, 1) /\ events[2].ok
    /\ events[4].id = ServerContainerName(clusterName) /\ events[4].ok
    /\ events[5].op = "deleteClusterNetwork"
    /\ DOMAIN containers = {WorkerContainerName(clusterName, 0)}
    /\ ~network

-----------------------------------------------------------------------------
(* SpecInterleave: the merge, build and offset steps of createWorker for   *)
(* several workers, taken in any order                                     *)

\* the --publish values of these checks
InterleavePublishSpecs ==
    { SpecOf(b90, <<sAll>>),
      SpecOf(b80, <<sWorkers, WorkerContainerName(sC, 0)>>),
      SpecOf(b6443, <<WorkerContainerName(sC, 1)>>) }

\* the state in which CreateCluster enters its worker loop: the map is built
InitInterleave ==
    /\ pc = "interleave"
    /\ clusterName = sC
    /\ workers \in 1..MaxWorkers
    /\ portAutoOffset \in 0..MaxAutoOffset
    /\ specs \in BoundedSeq(InterleavePublishSpecs, MaxPublish)
    /\ createdNodes = GetAllContainerNames(clusterName, defaultServerCount, workers)
    /\ nodeToPortSpecMap = mapNodesToPortSpecs(specs, createdNodes).map
    /\ steps = [i \in 0..(workers - 1) |->
                   [pc |-> "merge", workerPorts |-> <<>>, published |-> EmptyPublishedPorts]]
    /\ err = FALSE
    /\ warnings = <<>>
    /\ extracted = <<>>
    /\ role = <<>>
    /\ name = <<>>
    /\ portSpecs = <<>>
    /\ nextWorker = 0
    /\ containers = EmptyMap
    /\ arrays = <<>>
    /\ publishedPorts = <<>>
    /\ trace = <<>>
    /\ NoLifecycle

\* the node-to-port-spec map as a MergePortSpecs call leaves it: its loops only read
\* the map and append the values to a list of their own
MapAfterMerge_GroupConsumed(m, r, n) ==
    [k \in (DOMAIN m) \ {nodeRuleGroupsMap(r)[1]} |-> m[k]]

MapAfterMerge(m, r, n) == m

\* the variables the steps of the workers leave alone
InterleaveFrame ==
    UNCHANGED <<pc, specs, createdNodes, err, warnings, extracted, mergeVars, clusterVars,
                portVars, lifeVars>>

\* workerPorts, err := MergePortSpecs(spec.NodeToPortSpecMap, "worker", containerName)
MergeStep ==
    \E i \in DOMAIN steps :
        /\ steps[i].pc = "merge"
        /\ steps' = [steps EXCEPT
                        ![i].pc = "build",
                        ![i].workerPorts =
                            MergePortSpecs(nodeToPortSpecMap, sWorker,
                                           GetContainerName(sWorker, clusterName, i))]
        /\ nodeToPortSpecMap' = MapAfterMerge(nodeToPortSpecMap, sWorker,
                                              GetContainerName(sWorker, clusterName, i))
        /\ InterleaveFrame

\* workerPublishedPorts, err := CreatePublishedPorts(workerPorts)
BuildStep ==
    \E i \in DOMAIN steps :
        /\ steps[i].pc = "build"
        /\ steps' = [steps EXCEPT
                        ![i].pc = IF CreatePublishedPorts(steps[i].workerPorts).ok
                                  THEN "offset" ELSE "failed",
                        ![i].published = CreatePublishedPorts(steps[i].workerPorts).ports]
        /\ UNCHANGED nodeToPortSpecMap
        /\ InterleaveFrame

\* if spec.PortAutoOffset > 0 { workerPublishedPorts = workerPublishedPorts.Offset(...) }
OffsetStep ==
    \E i \in DOMAIN steps :
        /\ steps[i].pc = "offset"
        /\ steps' = [steps EXCEPT
                        ![i].pc = "done",
                        ![i].published =
                            WorkerPublishedPorts(steps[i].published, i, portAutoOffset)]
        /\ UNCHANGED nodeToPortSpecMap
        /\ InterleaveFrame

NextInterleave == MergeStep \/ BuildStep \/ OffsetStep

SpecInterleave == InitInterleave /\ [][NextInterleave]_vars

\* the ports of worker i when the workers are processed one after the other
SequentialPorts(i) ==
    WorkerPublishedPorts(
        BuiltFrom(MergePortSpecs(mapNodesToPortSpecs(specs, createdNodes).map, sWorker,
                                 WorkerContainerName(clusterName, i))),
        i, portAutoOffset)

====
